---- MODULE Spec2Model ----
(***************************************************************************)
(* MB::ThreadPool (ThreadPool.h / ThreadPool.cpp): a queue of tasks served *)
(* by a capped vector of worker threads, with a stop flag, one mutex and   *)
(* one condition variable.  The client is the shape of main.cpp: an owner  *)
(* thread that constructs the pool and later lets it go out of scope, and  *)
(* a producer thread that calls enqueue and is joined before the pool is   *)
(* destroyed.  A task body may itself call enqueue on the pool, return     *)
(* normally, or let an exception escape.                                   *)
(***************************************************************************)
EXTENDS Integers, Sequences, FiniteSets, TLC

\* Bounds of the exploration.
MaxTasks == 3       \* tasks handed to enqueue in one run
MaxInitial == 3     \* largest initialThreads passed to the constructor
MaxCap == 2         \* largest maxThreads passed to the constructor
\* The same three for the runs checked under fairness.
FairTasks == 2
FairInitial == 2
FairCap == 2
\* Tasks handed to enqueue in a run of the std::async variant.
AsyncTasks == 2

VARIABLES
    initialThreads, \* constructor argument
    maxThreads,     \* ThreadPool::maxThreads
    workers,        \* ThreadPool::workers: one record per spawned thread
    tasks,          \* ThreadPool::tasks (front of the queue = head)
    stop,           \* ThreadPool::stop
    mutex,          \* ThreadPool::queueMutex: 0 = free, w = held by worker w
    mainPc,         \* owner thread: "ctor", "live", "finished", "notifyAll",
                    \* "join", "done"
    ctorCalls,      \* constructor loop counter i = addThread calls made
    joinIdx,        \* destructor loop position in workers
    ppc,            \* producer thread: "idle", "lock", "notify"
    pid,            \* task the producer is enqueueing (0 = none)
    budget,         \* number of task identities the client uses in this run
    nextId,         \* next unused task identity
    kind,           \* task identity -> what its body does
    enqLog,         \* history: tasks in the order they were pushed
    popLog,         \* history: tasks in the order they were popped
    execCount,      \* history: task identity -> completed executions
    terminated,     \* std::terminate was called (exception left a thread)
    enqAtStop,      \* history: Len(enqLog) when the destructor set stop
    notified        \* history: the destructor has called notify_all

vars == <<initialThreads, maxThreads, workers, tasks, stop, mutex, mainPc,
          ctorCalls, joinIdx, ppc, pid, budget, nextId, kind, enqLog, popLog,
          execCount, terminated, enqAtStop, notified>>

TaskIds == 1..MaxTasks
Kinds == {"plain", "throws", "enqueues"}

\* A task whose body enqueues uses two identities: its own and its child's.
Cost(k) == IF k = "enqueues" THEN 2 ELSE 1
ChildOf(t) == t + 1

WorkerIds == 1..Len(workers)
PcOf(w) == workers[w].pc
Parked == {w \in WorkerIds : PcOf(w) = "parked"}

\* ---------------------------------------------------------------- helpers

\* std::thread constructed at the top of workerLoop, no task in hand.
NewWorker == [pc |-> "acquire", task |-> 0]

CanSpawnOffByOne(n) == n <= maxThreads

\* addThread's test: workers.size() < maxThreads
CanSpawn(n) == n < maxThreads

\* the wait predicate: stop || !tasks.empty()
WaitPredicate == stop \/ tasks # <<>>

ShouldExitOnStop == stop

\* the exit test: stop && tasks.empty()
ShouldExit == stop /\ tasks = <<>>

PushFront(q, t) == <<t>> \o q
PopKeeps(q) == q

\* tasks.push / tasks.front / tasks.pop
PushTask(q, t) == Append(q, t)
Front(q) == Head(q)
Pop(q) == Tail(q)

MutexKeptAcrossWait(w) == w

\* condition.wait(lock) releases the mutex as it parks the caller.
MutexAfterWait(w) == 0

MutexHeldAfterBlock(w) == w

\* the mutex once the worker leaves the locked block of workerLoop
MutexAfterBlock(w) == 0

JoinReturnsAtOnce(w) == TRUE

\* thread::join returns once the thread function has returned.
JoinReturns(w) == PcOf(w) = "exited"

\* a woken waiter goes back to re-acquire the mutex
Wake(ws, w) == IF w = 0 THEN ws ELSE [ws EXCEPT ![w].pc = "acquire"]

NotifyOneNobody == {0}

\* notify_one wakes one parked thread if there is any (0 = nobody to wake)
NotifyOneTargets == IF Parked = {} THEN {0} ELSE Parked

\* notify_all wakes every parked thread
NotifyAll(ws) ==
    [i \in 1..Len(ws) |-> IF ws[i].pc = "parked"
                          THEN [ws[i] EXCEPT !.pc = "acquire"] ELSE ws[i]]

getThreadCount == Len(workers)
getPendingTaskCount == Len(tasks)

\* ------------------------------------------------------------------- Init

InitWith(maxInitial, maxCap, nTasks) ==
    /\ initialThreads \in 0..maxInitial
    /\ maxThreads \in 0..maxCap
    /\ budget = nTasks
    /\ workers = <<>>
    /\ tasks = <<>>
    /\ stop = FALSE
    /\ mutex = 0
    /\ mainPc = "ctor"
    /\ ctorCalls = 0
    /\ joinIdx = 0
    /\ ppc = "idle"
    /\ pid = 0
    /\ nextId = 1
    /\ kind = [t \in TaskIds |-> "none"]
    /\ enqLog = <<>>
    /\ popLog = <<>>
    /\ execCount = [t \in TaskIds |-> 0]
    /\ terminated = FALSE
    /\ enqAtStop = 0
    /\ notified = FALSE

Init == InitWith(MaxInitial, MaxCap, MaxTasks)

FairInit == InitWith(FairInitial, FairCap, FairTasks)

\* ------------------------------------------------------------ constructor

AddThreadCalledOnBacklog ==
    \/ (mainPc = "ctor" /\ ctorCalls < initialThreads)
    \/ (mainPc \in {"live", "finished", "notifyAll", "join"}
          /\ tasks # <<>> /\ ctorCalls <= initialThreads)

\* addThread is private; its one call is in the constructor's loop.
ConstructorCallsAddThread == mainPc = "ctor" /\ ctorCalls < initialThreads

\* One iteration of the constructor's loop: a call of addThread.
AddThread ==
    /\ ~terminated
    /\ ConstructorCallsAddThread
    /\ mutex = 0
    /\ ctorCalls' = ctorCalls + 1
    /\ workers' = IF CanSpawn(Len(workers))
                  THEN Append(workers, NewWorker)
                  ELSE workers
    /\ UNCHANGED <<notified, budget, initialThreads, maxThreads, tasks, stop, mutex, mainPc,
                   joinIdx, ppc, pid, nextId, kind, enqLog, popLog,
                   execCount, terminated, enqAtStop>>

\* The loop ends and the constructor returns.
CtorReturn ==
    /\ ~terminated
    /\ mainPc = "ctor"
    /\ ctorCalls >= initialThreads
    /\ mainPc' = "live"
    /\ UNCHANGED <<notified, budget, initialThreads, maxThreads, workers, tasks, stop, mutex,
                   ctorCalls, joinIdx, ppc, pid, nextId, kind, enqLog,
                   popLog, execCount, terminated, enqAtStop>>

\* --------------------------------------------------------------- producer

\* The producer calls enqueue with a task of kind k.
ProducerCall(k) ==
    /\ ~terminated
    /\ mainPc = "live"
    /\ ppc = "idle"
    /\ nextId + Cost(k) - 1 <= budget
    /\ pid' = nextId
    /\ nextId' = nextId + Cost(k)
    /\ kind' = [t \in TaskIds |->
                  IF t = nextId THEN k
                  ELSE IF k = "enqueues" /\ t = ChildOf(nextId) THEN "plain"
                  ELSE kind[t]]
    /\ ppc' = "lock"
    /\ UNCHANGED <<notified, budget, initialThreads, maxThreads, workers, tasks, stop, mutex,
                   mainPc, ctorCalls, joinIdx, enqLog, popLog, execCount,
                   terminated, enqAtStop>>

\* enqueue: lock, push, unlock.
ProducerPush ==
    /\ ~terminated
    /\ ppc = "lock"
    /\ mutex = 0
    /\ tasks' = PushTask(tasks, pid)
    /\ enqLog' = Append(enqLog, pid)
    /\ ppc' = "notify"
    /\ UNCHANGED <<notified, budget, initialThreads, maxThreads, workers, stop, mutex, mainPc,
                   ctorCalls, joinIdx, pid, nextId, kind, popLog, execCount,
                   terminated, enqAtStop>>

\* enqueue: notify_one, return.
ProducerNotify ==
    /\ ~terminated
    /\ ppc = "notify"
    /\ \E w \in NotifyOneTargets : workers' = Wake(workers, w)
    /\ ppc' = "idle"
    /\ pid' = 0
    /\ UNCHANGED <<notified, budget, initialThreads, maxThreads, tasks, stop, mutex, mainPc,
                   ctorCalls, joinIdx, nextId, kind, enqLog, popLog,
                   execCount, terminated, enqAtStop>>

\* ------------------------------------------------------------- workerLoop

\* unique_lock constructor, and the re-lock inside condition.wait.
WorkerLock(w) ==
    /\ ~terminated
    /\ w \in WorkerIds
    /\ PcOf(w) = "acquire"
    /\ mutex = 0
    /\ mutex' = w
    /\ workers' = [workers EXCEPT ![w].pc = "pred"]
    /\ UNCHANGED <<notified, budget, initialThreads, maxThreads, tasks, stop, mainPc,
                   ctorCalls, joinIdx, ppc, pid, nextId, kind, enqLog,
                   popLog, execCount, terminated, enqAtStop>>

\* condition.wait(lock, pred): evaluate the predicate with the mutex held.
WorkerPred(w) ==
    /\ ~terminated
    /\ w \in WorkerIds
    /\ PcOf(w) = "pred"
    /\ workers' = [workers EXCEPT
                     ![w].pc = IF WaitPredicate THEN "claim" ELSE "block"]
    /\ UNCHANGED <<notified, budget, initialThreads, maxThreads, tasks, stop, mutex, mainPc,
                   ctorCalls, joinIdx, ppc, pid, nextId, kind, enqLog,
                   popLog, execCount, terminated, enqAtStop>>

\* condition.wait(lock): release the mutex and park, in one step.
WorkerWait(w) ==
    /\ ~terminated
    /\ w \in WorkerIds
    /\ PcOf(w) = "block"
    /\ workers' = [workers EXCEPT ![w].pc = "parked"]
    /\ mutex' = MutexAfterWait(w)
    /\ UNCHANGED <<notified, budget, initialThreads, maxThreads, tasks, stop, mainPc,
                   ctorCalls, joinIdx, ppc, pid, nextId, kind, enqLog,
                   popLog, execCount, terminated, enqAtStop>>

\* A wait may return without any notification.
SpuriousWake(w) ==
    /\ ~terminated
    /\ w \in WorkerIds
    /\ PcOf(w) = "parked"
    /\ workers' = Wake(workers, w)
    /\ UNCHANGED <<notified, budget, initialThreads, maxThreads, tasks, stop, mutex, mainPc,
                   ctorCalls, joinIdx, ppc, pid, nextId, kind, enqLog,
                   popLog, execCount, terminated, enqAtStop>>

\* After the wait: return when stopped and drained, else take the front
\* task; either way the locked block ends.
WorkerClaim(w) ==
    /\ ~terminated
    /\ w \in WorkerIds
    /\ PcOf(w) = "claim"
    /\ IF ShouldExit
       THEN /\ workers' = [workers EXCEPT ![w].pc = "exited"]
            /\ UNCHANGED <<tasks, popLog>>
       ELSE /\ workers' = [workers EXCEPT ![w].pc = "run",
                                          ![w].task = Front(tasks)]
            /\ tasks' = Pop(tasks)
            /\ popLog' = Append(popLog, Front(tasks))
    /\ mutex' = MutexAfterBlock(w)
    /\ UNCHANGED <<notified, budget, initialThreads, maxThreads, stop, mainPc, ctorCalls,
                   joinIdx, ppc, pid, nextId, kind, enqLog, execCount,
                   terminated, enqAtStop>>

\* task(): a body that returns, or one that lets an exception escape the
\* thread function (no handler in workerLoop: std::terminate).
WorkerRun(w) ==
    /\ ~terminated
    /\ w \in WorkerIds
    /\ PcOf(w) = "run"
    /\ kind[workers[w].task] \in {"plain", "throws"}
    /\ IF kind[workers[w].task] = "throws"
       THEN /\ terminated' = TRUE
            /\ UNCHANGED <<workers, execCount>>
       ELSE /\ execCount' = [execCount EXCEPT ![workers[w].task] = @ + 1]
            /\ workers' = [workers EXCEPT ![w].pc = "acquire", ![w].task = 0]
            /\ UNCHANGED terminated
    /\ UNCHANGED <<notified, budget, initialThreads, maxThreads, tasks, stop, mutex, mainPc,
                   ctorCalls, joinIdx, ppc, pid, nextId, kind, enqLog,
                   popLog, enqAtStop>>

\* task() whose body calls enqueue: lock, push, unlock.
TaskEnqueuePush(w) ==
    /\ ~terminated
    /\ w \in WorkerIds
    /\ PcOf(w) = "run"
    /\ kind[workers[w].task] = "enqueues"
    /\ mutex = 0
    /\ tasks' = PushTask(tasks, ChildOf(workers[w].task))
    /\ enqLog' = Append(enqLog, ChildOf(workers[w].task))
    /\ workers' = [workers EXCEPT ![w].pc = "runNotify"]
    /\ UNCHANGED <<notified, budget, initialThreads, maxThreads, stop, mutex, mainPc,
                   ctorCalls, joinIdx, ppc, pid, nextId, kind, popLog,
                   execCount, terminated, enqAtStop>>

\* ... notify_one, and the body returns.
TaskEnqueueNotify(w) ==
    /\ ~terminated
    /\ w \in WorkerIds
    /\ PcOf(w) = "runNotify"
    /\ \E v \in NotifyOneTargets :
         workers' = [Wake(workers, v) EXCEPT ![w].pc = "acquire",
                                             ![w].task = 0]
    /\ execCount' = [execCount EXCEPT ![workers[w].task] = @ + 1]
    /\ UNCHANGED <<notified, budget, initialThreads, maxThreads, tasks, stop, mutex, mainPc,
                   ctorCalls, joinIdx, ppc, pid, nextId, kind, enqLog,
                   popLog, terminated, enqAtStop>>

\* ----------------------------------------------------------------- client

\* main.cpp: the producer has been joined and the polling loop reads
\* getPendingTaskCount() == 0, so it ends and main reports it is finished.
MainPollEnds ==
    /\ ~terminated
    /\ mainPc = "live"
    /\ ppc = "idle"
    /\ mutex = 0
    /\ getPendingTaskCount = 0
    /\ mainPc' = "finished"
    /\ UNCHANGED <<notified, budget, initialThreads, maxThreads, workers, tasks,
                   stop, mutex, ctorCalls, joinIdx, ppc, pid, nextId, kind,
                   enqLog, popLog, execCount, terminated, enqAtStop>>

\* ------------------------------------------------------------- destructor

DtorSkipsBroadcast == "join"

\* the destructor's statement after stop = true: condition.notify_all()
DtorAfterStop == "notifyAll"

\* The producer has been joined; the pool goes out of scope (with or without
\* the polling loop before it): stop = true.
DtorStop ==
    /\ ~terminated
    /\ mainPc \in {"live", "finished"}
    /\ ppc = "idle"
    /\ stop' = TRUE
    /\ enqAtStop' = Len(enqLog)
    /\ mainPc' = DtorAfterStop
    /\ UNCHANGED <<notified, budget, initialThreads, maxThreads, workers, tasks, mutex,
                   ctorCalls, joinIdx, ppc, pid, nextId, kind, enqLog,
                   popLog, execCount, terminated>>

\* condition.notify_all()
DtorNotifyAll ==
    /\ ~terminated
    /\ mainPc = "notifyAll"
    /\ workers' = NotifyAll(workers)
    /\ mainPc' = "join"
    /\ joinIdx' = 1
    /\ notified' = TRUE
    /\ UNCHANGED <<budget, initialThreads, maxThreads, tasks, stop, mutex,
                   ctorCalls, ppc, pid, nextId, kind, enqLog, popLog,
                   execCount, terminated, enqAtStop>>

\* worker.join() for the next element of workers
DtorJoin ==
    /\ ~terminated
    /\ mainPc = "join"
    /\ joinIdx <= Len(workers)
    /\ JoinReturns(joinIdx)
    /\ joinIdx' = joinIdx + 1
    /\ UNCHANGED <<notified, budget, initialThreads, maxThreads, workers, tasks, stop, mutex,
                   mainPc, ctorCalls, ppc, pid, nextId, kind, enqLog,
                   popLog, execCount, terminated, enqAtStop>>

\* The join loop is over and the destructor returns.
DtorReturn ==
    /\ ~terminated
    /\ mainPc = "join"
    /\ joinIdx > Len(workers)
    /\ mainPc' = "done"
    /\ UNCHANGED <<notified, budget, initialThreads, maxThreads, workers, tasks, stop, mutex,
                   ctorCalls, joinIdx, ppc, pid, nextId, kind, enqLog,
                   popLog, execCount, terminated, enqAtStop>>

\* ------------------------------------------------------------------- Next

\* Every step but a spurious wake-up, which no scheduler owes.
Progress ==
    \/ AddThread
    \/ CtorReturn
    \/ \E k \in Kinds : ProducerCall(k)
    \/ ProducerPush
    \/ ProducerNotify
    \/ \E w \in WorkerIds : WorkerLock(w)
    \/ \E w \in WorkerIds : WorkerPred(w)
    \/ \E w \in WorkerIds : WorkerWait(w)
    \/ \E w \in WorkerIds : WorkerClaim(w)
    \/ \E w \in WorkerIds : WorkerRun(w)
    \/ \E w \in WorkerIds : TaskEnqueuePush(w)
    \/ \E w \in WorkerIds : TaskEnqueueNotify(w)
    \/ MainPollEnds
    \/ DtorStop
    \/ DtorNotifyAll
    \/ DtorJoin
    \/ DtorReturn

Next ==
    \/ Progress
    \/ \E w \in WorkerIds : SpuriousWake(w)

Spec == Init /\ [][Next]_vars

\* The scheduler keeps running every thread that can take a step (weak
\* fairness per thread), and a thread that finds the mutex free again and
\* again gets it in the end (strong fairness on locking).  Calling enqueue,
\* destroying the pool and waking spuriously are owed by nobody.
Fairness ==
    /\ SF_vars(AddThread)
    /\ WF_vars(CtorReturn \/ DtorNotifyAll \/ DtorJoin \/ DtorReturn)
    /\ SF_vars(ProducerPush)
    /\ WF_vars(ProducerNotify)
    /\ \A w \in 1..FairCap :
         /\ SF_vars(WorkerLock(w) \/ TaskEnqueuePush(w))
         /\ WF_vars(WorkerPred(w) \/ WorkerWait(w) \/ WorkerClaim(w)
                      \/ WorkerRun(w) \/ TaskEnqueueNotify(w))

FairSpec == FairInit /\ [][Next]_vars /\ Fairness

\* ------------------------------------------------- the std::async variant
\* AsyncPool.h / AsyncPool.cpp with the run of main_async.cpp.  workerLoop and
\* enqueue are the same statements as in ThreadPool.cpp, so the worker and
\* enqueue steps above serve both.  The pool has no cap, and its workers are
\* std::async futures that the destructor body does not join by hand.

\* MB::ThreadPool pool(4) in main_async.cpp
DemoThreads == 4

\* (maxThreads is no member of this pool; it is left at 0 and never read.)
AsyncInit ==
    /\ InitWith(DemoThreads, 0, AsyncTasks)
    /\ initialThreads = DemoThreads

\* One iteration of the constructor's loop: std::async(std::launch::async,
\* &ThreadPool::workerLoop, this), its future pushed onto workerFutures_.
AsyncLaunch ==
    /\ ~terminated
    /\ mainPc = "ctor"
    /\ ctorCalls < initialThreads
    /\ ctorCalls' = ctorCalls + 1
    /\ workers' = Append(workers, NewWorker)
    /\ UNCHANGED <<notified, budget, initialThreads, maxThreads, tasks, stop,
                   mutex, mainPc, joinIdx, ppc, pid, nextId, kind, enqLog,
                   popLog, execCount, terminated, enqAtStop>>

\* After the destructor body, workerFutures_ is destroyed first (it is the
\* last member declared), element by element; the destructor of a future
\* obtained from std::async blocks until its thread function has returned.
AsyncFutureDtor == DtorJoin

\* Every future is destroyed; the remaining members go and ~ThreadPool ends.
AsyncDtorReturn == DtorReturn

AsyncNext ==
    \/ AsyncLaunch
    \/ CtorReturn
    \/ \E k \in Kinds : ProducerCall(k)
    \/ ProducerPush
    \/ ProducerNotify
    \/ \E w \in WorkerIds : WorkerLock(w)
    \/ \E w \in WorkerIds : WorkerPred(w)
    \/ \E w \in WorkerIds : WorkerWait(w)
    \/ \E w \in WorkerIds : WorkerClaim(w)
    \/ \E w \in WorkerIds : WorkerRun(w)
    \/ \E w \in WorkerIds : TaskEnqueuePush(w)
    \/ \E w \in WorkerIds : TaskEnqueueNotify(w)
    \/ \E w \in WorkerIds : SpuriousWake(w)
    \/ DtorStop
    \/ DtorNotifyAll
    \/ AsyncFutureDtor
    \/ AsyncDtorReturn

AsyncSpec == AsyncInit /\ [][AsyncNext]_vars

\* ----------------------------------------------------------------- claims

Running == {w \in WorkerIds : PcOf(w) \in {"run", "runNotify"}}

\* C1: for a pool built with maxThreads >= 1 and initialThreads <= maxThreads,
\* when the destructor has returned, every task enqueued before the pool was
\* destroyed has been executed exactly once and no task is running.
C1_DrainedAtReturn ==
    (mainPc = "done" /\ maxThreads >= 1 /\ initialThreads <= maxThreads) =>
        /\ \A i \in 1..enqAtStop : execCount[enqLog[i]] = 1
        /\ Running = {}

\* C2: shutdown cannot get stuck: once the destructor has begun and until it
\* has returned, some thread can take a step without the help of a spurious
\* wake-up (no worker is left parked for ever behind a blocked join).
C2_ShutdownNeverStuck ==
    (stop /\ ~terminated /\ mainPc # "done") => ENABLED Progress

\* C3: when the destructor has returned, every worker has exited.
C3_NoWorkerOutlivesPool ==
    mainPc = "done" => \A w \in WorkerIds : PcOf(w) = "exited"

C3_Witness ==
    /\ mainPc = "done"
    /\ Len(workers) = 2
    /\ Len(popLog) >= 2

\* C4: the number of workers never exceeds maxThreads.
C4_ThreadCountCapped == getThreadCount <= maxThreads

C4_Witness ==
    /\ mainPc = "live"
    /\ maxThreads >= 1
    /\ getThreadCount = maxThreads
    /\ ctorCalls > maxThreads
    /\ tasks # <<>>

\* C5: a call of addThread appends one worker, at the top of the worker
\* loop, when the count is below maxThreads, and else leaves the worker set
\* as it is; the queue and the stop flag are untouched either way.
C5_AddThreadEffect ==
    [][ctorCalls' # ctorCalls =>
         /\ IF Len(workers) < maxThreads
            THEN workers' = Append(workers, [pc |-> "acquire", task |-> 0])
            ELSE workers' = workers
         /\ tasks' = tasks
         /\ stop' = stop]_vars

C5_Witness ==
    /\ mainPc = "ctor"
    /\ maxThreads = 2
    /\ ctorCalls = 3
    /\ getThreadCount = 2

\* C6: constructor arguments with maxThreads = 0 or initialThreads >
\* maxThreads never yield a pool: the constructor does not return normally,
\* no worker is spawned and no task is enqueued.
C6_MisuseRejected ==
    (maxThreads = 0 \/ initialThreads > maxThreads) =>
        /\ mainPc = "ctor"
        /\ workers = <<>>
        /\ enqLog = <<>>

\* C7: the pending count is the number of tasks pushed minus the number
\* popped; with no worker it is the number pushed.
C7_PendingIsPushedMinusPopped ==
    /\ getPendingTaskCount = Len(enqLog) - Len(popLog)
    /\ (getThreadCount = 0 => getPendingTaskCount = Len(enqLog))

C7_Witness ==
    /\ Len(enqLog) = 3
    /\ Len(popLog) = 2
    /\ getPendingTaskCount = 1

\* C8: the tasks popped so far are, in order, the first tasks pushed.
C8_PopsArePrefixOfPushes ==
    /\ Len(popLog) <= Len(enqLog)
    /\ \A i \in 1..Len(popLog) : popLog[i] = enqLog[i]

C8_Witness ==
    /\ getThreadCount = 1
    /\ Len(popLog) = 3
    /\ enqLog # <<1, 2, 3>>

\* C9: a call of enqueue, from the producer or from inside a running task,
\* gets the mutex, pushes and returns (unless the process is terminated).
C9_EnqueueReturns ==
    /\ (ppc = "lock") ~> (ppc = "idle" \/ terminated)
    /\ \A w \in 1..FairCap :
         (w \in WorkerIds /\ PcOf(w) = "run"
            /\ kind[workers[w].task] = "enqueues")
         ~> ((w \in WorkerIds /\ PcOf(w) = "acquire") \/ terminated)

C9_Witness ==
    /\ ppc = "notify"
    /\ \E w \in WorkerIds : PcOf(w) = "runNotify"
    /\ \E w \in WorkerIds : PcOf(w) = "parked"

\* C10: a task that raises leaves the process running and its worker back
\* at the top of the loop, with as many workers as before.
C10_FaultContained ==
    [][\A w \in WorkerIds :
         (/\ PcOf(w) = "run"
          /\ kind[workers[w].task] = "throws"
          /\ (terminated' # terminated \/ workers'[w] # workers[w]))
         => (/\ ~terminated'
             /\ Len(workers') = Len(workers)
             /\ workers'[w].pc = "acquire")]_vars

\* C11: in the run of main_async.cpp (4 workers, one task that finishes, then
\* the pool goes out of scope) the destructor of the std::async variant never
\* returns.
C11_AsyncTeardownNeverReturns ==
    (/\ Len(workers) = DemoThreads
     /\ nextId = 2
     /\ kind[1] = "plain"
     /\ execCount[1] = 1) => mainPc # "done"

LateTasks == {enqLog[i] : i \in (enqAtStop + 1)..Len(enqLog)}
Popped == {popLog[i] : i \in 1..Len(popLog)}

\* C13 as claimed: a task accepted after stop is never popped by a worker.
C13_LateTaskNeverDrained == stop => LateTasks \cap Popped = {}

\* C13, amended: an enqueue after stop appends its task to the queue (the
\* pending count rises by one, the process goes on), and a worker that
\* reaches the exit test after stop with a task queued pops the front task
\* and runs it instead of exiting.
C13_LateTaskAcceptedAndServed ==
    [][/\ (stop /\ enqLog' # enqLog) =>
            /\ \E t \in TaskIds : /\ enqLog' = Append(enqLog, t)
                                  /\ tasks' = Append(tasks, t)
            /\ Len(tasks') = getPendingTaskCount + 1
            /\ ~terminated'
       /\ \A w \in WorkerIds :
            (stop /\ PcOf(w) = "claim" /\ tasks # <<>>
               /\ workers'[w] # workers[w]) =>
            /\ workers'[w] = [pc |-> "run", task |-> Head(tasks)]
            /\ tasks' = Tail(tasks)]_vars

C13_Witness ==
    /\ stop
    /\ \E t \in LateTasks : execCount[t] = 1

\* The workers that hold task t between popping it and finishing it.
Holders(t) == {w \in WorkerIds : workers[w].task = t}

\* C14: every popped task is popped once, and is either in the hands of
\* exactly one worker that is running it, or has been executed exactly once
\* and is in nobody's hands; a task not yet popped has not been executed.
C14_PoppedRunsExactlyOnce ==
    /\ \A i, j \in 1..Len(popLog) : popLog[i] = popLog[j] => i = j
    /\ \A t \in Popped :
         \/ /\ execCount[t] = 0
            /\ Cardinality(Holders(t)) = 1
            /\ Holders(t) \subseteq Running
         \/ /\ execCount[t] = 1
            /\ Holders(t) = {}
    /\ \A t \in TaskIds \ Popped : execCount[t] = 0 /\ Holders(t) = {}

C14_Witness ==
    /\ Cardinality(Running) = 2
    /\ \E t \in Popped : execCount[t] = 1
    /\ tasks = <<>>

\* C15: a worker that is running a task or is parked in the wait does not
\* own the mutex; whoever owns it is a worker inside the locked block.
C15_NoLockAcrossRunOrPark ==
    /\ \A w \in WorkerIds :
         PcOf(w) \in {"run", "runNotify", "parked"} => mutex # w
    /\ mutex # 0 =>
         (mutex \in WorkerIds /\ PcOf(mutex) \in {"pred", "block", "claim"})

C15_Witness ==
    /\ \E v, w \in WorkerIds :
         v # w /\ PcOf(v) = "run" /\ PcOf(w) = "run"
    /\ ppc = "notify"

Exited == {w \in WorkerIds : PcOf(w) = "exited"}

\* C16: a worker has exited only if stop is true, and the step by which a
\* worker exits is taken with the mutex held, stop true and the queue empty
\* (so after stop no worker leaves while a task is queued).
C16_ExitOnlyWhenStoppedAndDrained ==
    /\ [](Exited # {} => stop)
    /\ [][\A w \in WorkerIds :
            (PcOf(w) # "exited" /\ workers'[w].pc = "exited") =>
                (stop /\ tasks = <<>> /\ mutex = w /\ tasks' = <<>>)]_vars

C16_Witness ==
    /\ Exited # {}
    /\ Running # {}
    /\ enqAtStop >= 2
    /\ Len(popLog) > enqAtStop

Pushed == {enqLog[i] : i \in 1..Len(enqLog)}

\* C17: while the pool runs (stop false, at least one worker), the queue is
\* never non-empty with every worker parked and no notify_one still to come;
\* and, under fair scheduling, every task pushed to a pool with a worker is
\* popped by some worker, unless the process is terminated first.
C17_NoLostWakeForWork ==
    /\ []((~stop /\ ~terminated /\ getThreadCount >= 1 /\ tasks # <<>>) =>
            (Parked # WorkerIds \/ ppc = "notify"))
    /\ \A t \in 1..FairTasks :
         (t \in Pushed /\ getThreadCount >= 1) ~>
             (t \in Popped \/ terminated)

C17_Witness ==
    /\ ~stop
    /\ getThreadCount = 2
    /\ Parked = WorkerIds
    /\ tasks # <<>>
    /\ ppc = "notify"

\* C18: shutdown is ordered: the destroying thread reaches the joins only
\* after the broadcast, the broadcast is issued only after stop was set, and
\* stop, once true, stays true.
C18_ShutdownOrdered ==
    /\ [](mainPc \in {"join", "done"} => notified)
    /\ [](notified => stop)
    /\ [][~stop => (notified' = notified /\ joinIdx' = joinIdx)]_vars
    /\ [][stop => stop']_vars

C18_Witness ==
    /\ mainPc = "join"
    /\ joinIdx = 2
    /\ notified
    /\ Running # {}

\* C19: when the driver's polling loop has ended and main prints that the
\* program finished, every enqueued task has completed and no worker is
\* still running one.
C19_FinishedMeansAllDone ==
    (mainPc = "finished" /\ ~terminated /\ getThreadCount >= 1) =>
        /\ Running = {}
        /\ \A t \in Pushed : execCount[t] = 1

\* C20: once the constructor has returned, the worker count is
\* min(initialThreads, maxThreads) and never changes afterwards.
Min(a, b) == IF a <= b THEN a ELSE b

C20_ThreadCountFixed ==
    /\ [](mainPc # "ctor" => getThreadCount = Min(initialThreads, maxThreads))
    /\ [][mainPc # "ctor" => Len(workers') = Len(workers)]_vars

C20_Witness ==
    /\ mainPc = "live"
    /\ initialThreads = 1
    /\ maxThreads = 2
    /\ getThreadCount = 1
    /\ Len(tasks) >= 2
    /\ Running # {}

====
